---------------------------- MODULE Spec2Model ----------------------------
(***************************************************************************)
(* A model of keepassx/main.py: the staged title search                    *)
(* (_search_for_entry / fuzzy_search_by_title / _filter_entries), the      *)
(* field lookups (_find_string / _find_password), the configuration        *)
(* layering (merge_config_file_values / create_db) and the selection       *)
(* prompt of do_get.                                                       *)
(*                                                                         *)
(* Strings are sequences of character codes (ASCII), so that lower(),      *)
(* substring tests, string comparison and difflib's ratio are computed     *)
(* rather than assumed.  An entry of the database is a record with its     *)
(* String fields (Key/Value pairs, in document order) and the Name of its  *)
(* parent group.  Lists of entries hold references: indices into           *)
(* db_entries.                                                             *)
(***************************************************************************)
EXTENDS Integers, Sequences, FiniteSets, TLC

VARIABLES
    pc,             \* position of the running call
    db_entries,     \* db.obj_root.findall('.//Entry'): the store, in document order
    term,           \* the search term (args.term / args.entry_id)
    ignore_groups,  \* the ignore_groups argument of fuzzy_search_by_title
    stage,          \* which stage of fuzzy_search_by_title returned (0: the final return [])
    candidates,     \* the raw list that stage handed to _filter_entries
    entries,        \* the list returned by fuzzy_search_by_title / _search_for_entry
    message,        \* the text of the EntryNotFoundError raised, <<>> when none
    entry,          \* the entry given to _find_string / _find_password / consumed by do_get
    key,            \* the key given to _find_string
    found,          \* the value a lookup returned
    args,           \* the argparse namespace: db_file, key_file
    environ,        \* os.environ: KP_DB_FILE, KP_KEY_FILE
    config,         \* the content of ~/.kpconfig
    opened,         \* the db_file and key_file create_db hands to keepass.open
    choice,         \* do_get: the variable choice of the prompt loop
    selected,       \* do_get: the variable selected
    prompts,        \* do_get: how many times 'Which entry? ' has been asked
    answer,         \* do_get: what raw_input returned last
    argv            \* the flags on the command line: -d, -k

vars == <<pc, db_entries, term, ignore_groups, stage, candidates, entries, message,
          entry, key, found, args, environ, config, opened, choice, selected, prompts,
          answer, argv>>

-----------------------------------------------------------------------------
(* Bounds of the model. *)

MaxEntries == 3      \* entries in the store
MaxCloseEntries == 4 \* entries in a store of close titles only
MaxFields == 3       \* String fields of the entry of a lookup
MaxPrompts == 3      \* answers the user gives to 'Which entry? '

-----------------------------------------------------------------------------
(* Strings. *)

\* Python's None, and a value v where None is possible too.
None == [none |-> TRUE]
Some(v) == [none |-> FALSE, val |-> v]

\* str.lower() on one ASCII character: 'A'..'Z' (65..90) map to 'a'..'z'.
LowerChar(c) == IF c >= 65 /\ c <= 90 THEN c + 32 ELSE c

\* str.lower()
Lower(s) == [i \in 1..Len(s) |-> LowerChar(s[i])]

\* sub in s: s contains sub as a contiguous substring.
Contains(sub, s) ==
    \E k \in 0..(Len(s) - Len(sub)) : SubSeq(s, k + 1, k + Len(sub)) = sub

\* s < t for Python strings: lexicographic on the character codes, a proper
\* prefix being smaller.
StrLess(s, t) ==
    \E k \in 1..(Len(t)) :
        /\ k <= Len(s) + 1
        /\ \A i \in 1..(k - 1) : s[i] = t[i]
        /\ (k = Len(s) + 1 \/ s[k] < t[k])

\* The concatenation of a sequence of sequences (itertools.chain.from_iterable).
RECURSIVE Chain(_)
Chain(ss) == IF ss = <<>> THEN <<>> ELSE Head(ss) \o Chain(Tail(ss))

\* The set of elements of a sequence.
Range(s) == {s[i] : i \in 1..Len(s)}

\* String literals of the source.
TitleKey == <<84, 105, 116, 108, 101>>                    \* 'Title'
PasswordKey == <<80, 97, 115, 115, 119, 111, 114, 100>>   \* 'Password'
BackupGroup == "Backup"                                   \* ignore_groups=["Backup"]
NotFoundPrefix ==                                         \* "Could not find an entry for: "
    <<67, 111, 117, 108, 100, 32, 110, 111, 116, 32, 102, 105, 110, 100, 32,
      97, 110, 32, 101, 110, 116, 114, 121, 32, 102, 111, 114, 58, 32>>

-----------------------------------------------------------------------------
(* Field lookup. *)

\* _find_string(entry, key) from the i-th String on: the value of the first
\* String whose lowercased Key equals the lowercased key, None when there is
\* none.
RECURSIVE FindStringFrom(_, _, _)
FindStringFrom(strings, k, i) ==
    IF i > Len(strings) THEN None
    ELSE IF Lower(strings[i].Key) = Lower(k) THEN Some(strings[i].Value)
    ELSE FindStringFrom(strings, k, i + 1)

find_string(e, k) == FindStringFrom(e.String, k, 1)

\* _find_password(entry) from the i-th String on: the value of the first
\* String whose Key == 'Password', None when there is none.
RECURSIVE FindPasswordFrom(_, _)
FindPasswordFrom(strings, i) ==
    IF i > Len(strings) THEN None
    ELSE IF strings[i].Key = PasswordKey THEN Some(strings[i].Value)
    ELSE FindPasswordFrom(strings, i + 1)

find_password(e) == FindPasswordFrom(e.String, 1)

\* _get_title(entry)
get_title(e) == find_string(e, TitleKey)

-----------------------------------------------------------------------------
(* difflib.SequenceMatcher and get_close_matches, as main.py calls them. *)

\* The length of the common run of a[i..ahi] and b[j..bhi] starting at i, j.
RECURSIVE RunLen(_, _, _, _, _, _)
RunLen(a, b, i, j, ahi, bhi) ==
    IF i > ahi \/ j > bhi THEN 0
    ELSE IF a[i] # b[j] THEN 0
    ELSE 1 + RunLen(a, b, i + 1, j + 1, ahi, bhi)

\* SequenceMatcher.find_longest_match on a[alo..ahi], b[blo..bhi] (no junk):
\* the longest matching block, the one starting earliest in a, and of those
\* the one starting earliest in b, as <<i, j, size>>.
FindLongestMatch(a, b, alo, ahi, blo, bhi) ==
    LET blocks == {<<i, j, RunLen(a, b, i, j, ahi, bhi)>> :
                       i \in alo..ahi, j \in blo..bhi}
    IN CHOOSE m \in blocks :
           \A u \in blocks :
               \/ u[3] < m[3]
               \/ u[3] = m[3] /\ m[1] < u[1]
               \/ u[3] = m[3] /\ m[1] = u[1] /\ m[2] <= u[2]

\* The total size of SequenceMatcher.get_matching_blocks: the longest match,
\* then the same to its left and to its right.
RECURSIVE MatchingSize(_, _, _, _, _, _)
MatchingSize(a, b, alo, ahi, blo, bhi) ==
    IF alo > ahi \/ blo > bhi THEN 0
    ELSE LET m == FindLongestMatch(a, b, alo, ahi, blo, bhi)
         IN IF m[3] = 0 THEN 0
            ELSE m[3]
                 + MatchingSize(a, b, alo, m[1] - 1, blo, m[2] - 1)
                 + MatchingSize(a, b, m[1] + m[3], ahi, m[2] + m[3], bhi)

\* SequenceMatcher.ratio() = 2.0 * matches / (len(a) + len(b)), 1.0 for two
\* empty strings; kept as the fraction <<numerator, denominator>>.
Ratio(a, b) ==
    IF Len(a) + Len(b) = 0 THEN <<1, 1>>
    ELSE <<2 * MatchingSize(a, b, 1, Len(a), 1, Len(b)), Len(a) + Len(b)>>

\* Comparisons of two ratios.
RatioLess(r, s) == r[1] * s[2] < s[1] * r[2]
RatioEq(r, s) == r[1] * s[2] = s[1] * r[2]

\* cutoff=0.7, as the fraction CutoffNum / CutoffDen.
CutoffNum == 7
CutoffDen == 10

\* get_close_matches' default n: at most the 3 best matches are returned.
NMatches == 3

\* s.ratio() >= cutoff
AtLeastCutoff(r) == r[1] * CutoffDen >= CutoffNum * r[2]

\* get_close_matches' result list before it is cut: (s.ratio(), x) for every
\* possibility x at or above the cutoff.
Scored(word, possibilities) ==
    {sx \in {<<Ratio(x, word), x>> : x \in possibilities} : AtLeastCutoff(sx[1])}

\* (score, x) < (score', y) for two tuples of that list.
ScoredLess(sx, sy) ==
    \/ RatioLess(sx[1], sy[1])
    \/ RatioEq(sx[1], sy[1]) /\ StrLess(sx[2], sy[2])

\* heapq.nlargest(n, result): the n largest tuples, largest first.
RECURSIVE NLargest(_, _)
NLargest(n, result) ==
    IF n = 0 \/ result = {} THEN <<>>
    ELSE LET top == CHOOSE sx \in result : \A sy \in result \ {sx} : ScoredLess(sy, sx)
         IN <<top>> \o NLargest(n - 1, result \ {top})

\* [x for score, x in result]
Names(result) == [i \in 1..Len(result) |-> result[i][2]]

\* A mutant: every match at or above the cutoff is returned, not the n best
\* only.
GetCloseMatchesUnlimited(word, possibilities) ==
    LET result == Scored(word, possibilities)
    IN Names(NLargest(Cardinality(result), result))

\* A mutant: the n best matches are returned, but not best first: the
\* smaller name comes first.
RECURSIVE InStringOrder(_)
InStringOrder(xs) ==
    IF xs = {} THEN <<>>
    ELSE LET low == CHOOSE x \in xs : \A y \in xs \ {x} : StrLess(x, y)
         IN <<low>> \o InStringOrder(xs \ {low})

GetCloseMatchesUnsorted(word, possibilities) ==
    InStringOrder(Range(Names(NLargest(NMatches, Scored(word, possibilities)))))

\* difflib.get_close_matches(word, possibilities, cutoff=0.7)
GetCloseMatches(word, possibilities) ==
    Names(NLargest(NMatches, Scored(word, possibilities)))

-----------------------------------------------------------------------------
(* MultiDict. *)

\* A mutant: the first value stored under a key is appended twice.
MultiDictSetItemTwice(map, k, value) ==
    IF k \notin DOMAIN map
    THEN [x \in DOMAIN map \cup {k} |-> IF x = k THEN <<value, value>> ELSE map[x]]
    ELSE [map EXCEPT ![k] = Append(@, value)]

\* MultiDict.__setitem__(key, value): a new key gets an empty list, then the
\* value is appended to the key's list.
MultiDictSetItem(map, k, value) ==
    LET withKey == IF k \notin DOMAIN map
                   THEN [x \in DOMAIN map \cup {k} |-> IF x = k THEN <<>> ELSE map[x]]
                   ELSE map
    IN [withKey EXCEPT ![k] = Append(@, value)]

\* entry_map after the loop over the first n entries:
\* entry_map[_get_title(entry).lower()] = entry
RECURSIVE EntryMap(_, _)
EntryMap(db, n) ==
    IF n = 0 THEN [x \in {} |-> <<>>]
    ELSE MultiDictSetItem(EntryMap(db, n - 1), Lower(get_title(db[n]).val), n)

-----------------------------------------------------------------------------
(* The search. *)

\* The references to the entries of db, in document order: what a loop over
\* db_entries visits.
Indices(db) == [i \in 1..Len(db) |-> i]

\* A mutant: the entries in the ignored groups are the ones kept.
filter_entries_inverted(db, es, ig) ==
    IF ig = None THEN es
    ELSE LET keep(i) == db[i].Name \in ig.val IN SelectSeq(es, keep)

\* _filter_entries(entries, ignore_groups)
filter_entries(db, es, ig) ==
    IF ig = None THEN es
    ELSE LET keep(i) == db[i].Name \notin ig.val IN SelectSeq(es, keep)

\* The raw matches of the three scanning stages of fuzzy_search_by_title.
ExactMatches(db, title) ==
    LET test(i) == get_title(db[i]) = Some(title) IN SelectSeq(Indices(db), test)

CaseInsensitiveMatches(db, title) ==
    LET test(i) == Lower(get_title(db[i]).val) = Lower(title)
    IN SelectSeq(Indices(db), test)

SubstringMatches(db, title) ==
    LET test(i) == Contains(Lower(title), Lower(get_title(db[i]).val))
    IN SelectSeq(Indices(db), test)

\* The raw matches of the close-match stage: the entries of every matched
\* name, chained in the order of the matches.
CloseMatches(db, title) ==
    LET entry_map == EntryMap(db, Len(db))
        matches == GetCloseMatches(Lower(title), DOMAIN entry_map)
    IN Chain([m \in 1..Len(matches) |-> entry_map[matches[m]]])

\* A mutant: substring matches are tried before case-insensitive matches.
fuzzy_search_substring_first(db, title, ig) ==
    LET exact == ExactMatches(db, title)
        nocase == CaseInsensitiveMatches(db, title)
        substr == SubstringMatches(db, title)
        close == CloseMatches(db, title)
        ret(s, es) == [stage |-> s, candidates |-> es,
                       entries |-> filter_entries(db, es, ig)]
    IN IF exact # <<>> THEN ret(1, exact)
       ELSE IF substr # <<>> THEN ret(3, substr)
       ELSE IF nocase # <<>> THEN ret(2, nocase)
       ELSE IF close # <<>> THEN ret(4, close)
       ELSE [stage |-> 0, candidates |-> <<>>, entries |-> <<>>]

\* fuzzy_search_by_title(title, ignore_groups): the first stage with raw
\* matches returns them filtered; return [] when no stage has any.
fuzzy_search_by_title(db, title, ig) ==
    LET exact == ExactMatches(db, title)
        nocase == CaseInsensitiveMatches(db, title)
        substr == SubstringMatches(db, title)
        close == CloseMatches(db, title)
        ret(s, es) == [stage |-> s, candidates |-> es,
                       entries |-> filter_entries(db, es, ig)]
    IN IF exact # <<>> THEN ret(1, exact)
       ELSE IF nocase # <<>> THEN ret(2, nocase)
       ELSE IF substr # <<>> THEN ret(3, substr)
       ELSE IF close # <<>> THEN ret(4, close)
       ELSE [stage |-> 0, candidates |-> <<>>, entries |-> <<>>]

\* "Could not find an entry for: %s" % term
NotFoundMessage(t) == NotFoundPrefix \o t

\* A mutant: an empty list is returned like any other.
search_for_entry_returns_empty(db, t) ==
    LET r == fuzzy_search_by_title(db, t, Some({BackupGroup}))
    IN [raised |-> FALSE, message |-> <<>>, stage |-> r.stage,
        candidates |-> r.candidates, entries |-> r.entries]

\* _search_for_entry(db, term): the fuzzy search ignoring the group "Backup";
\* EntryNotFoundError when it returns nothing.
search_for_entry(db, t) ==
    LET r == fuzzy_search_by_title(db, t, Some({BackupGroup}))
    IN [raised |-> r.entries = <<>>,
        message |-> IF r.entries = <<>> THEN NotFoundMessage(t) ELSE <<>>,
        stage |-> r.stage, candidates |-> r.candidates, entries |-> r.entries]

-----------------------------------------------------------------------------
(* Inputs of the resolver. *)

Groups == {BackupGroup, "Internet"}

\* Titles around the terms 'aba' and 'Aba': equal, equal but for case,
\* containing, and four close ones (ratios 6/7, 4/5, 4/5, 4/5).
Titles ==
    { <<97, 98, 97>>,          \* 'aba'
      <<65, 98, 97>>,          \* 'Aba'
      <<97, 98, 97, 98>>,      \* 'abab'
      <<97, 98, 98, 97>>,      \* 'abba'
      <<97, 98>>,              \* 'ab'
      <<98, 97>>,              \* 'ba'
      <<97, 97>> }             \* 'aa'

\* The four close titles only.
CloseTitles ==
    { <<97, 98, 98, 97>>, <<97, 98>>, <<98, 97>>, <<97, 97>> }

Terms == { <<97, 98, 97>>, <<65, 98, 97>> }       \* 'aba', 'Aba'

MkEntry(title, group) ==
    [String |-> << [Key |-> TitleKey, Value |-> title] >>, Name |-> group]

EntryPool == {MkEntry(t, g) : t \in Titles, g \in Groups}

\* The close titles in a group that is searched, two of them in "Backup" too.
CloseEntryPool ==
    {MkEntry(t, "Internet") : t \in CloseTitles}
    \cup {MkEntry(t, BackupGroup) : t \in {<<97, 98, 98, 97>>, <<97, 98>>}}

SeqsUpTo(S, n) == UNION {[1..k -> S] : k \in 0..n}

\* The values of the ignore_groups argument: absent, an empty list, the list
\* _search_for_entry passes.
IgnoreInputs == {None, Some({}), Some({BackupGroup})}

-----------------------------------------------------------------------------
(* The resolver as a state machine: one call per behaviour. *)

\* The variables of the other operations, at rest.
LookupIdle == entry = None /\ key = None /\ found = None
ConfigIdle ==
    argv = None /\ args = None /\ environ = None /\ config = None /\ opened = None
PromptIdle == choice = None /\ selected = None /\ prompts = 0 /\ answer = None
SearchIdle ==
    /\ ignore_groups = None /\ stage = 0 /\ candidates = <<>>
    /\ entries = <<>> /\ message = <<>>

InitStore(stores) ==
    /\ pc = "ready"
    /\ db_entries \in stores
    /\ term \in Terms
    /\ SearchIdle /\ LookupIdle /\ ConfigIdle /\ PromptIdle

Init == InitStore(SeqsUpTo(EntryPool, MaxEntries))

InitClose == InitStore(SeqsUpTo(CloseEntryPool, MaxCloseEntries))

\* A call of fuzzy_search_by_title(term, ig).
FuzzySearch ==
    /\ pc = "ready"
    /\ \E ig \in IgnoreInputs :
        LET r == fuzzy_search_by_title(db_entries, term, ig)
        IN /\ ignore_groups' = ig
           /\ stage' = r.stage
           /\ candidates' = r.candidates
           /\ entries' = r.entries
    /\ pc' = "fuzzy_returned"
    /\ UNCHANGED <<db_entries, term, message, entry, key, found, args, environ,
                   config, opened, choice, selected, prompts, answer, argv>>

\* A call of _search_for_entry(db, term).
SearchForEntry ==
    /\ pc = "ready"
    /\ LET r == search_for_entry(db_entries, term)
       IN /\ ignore_groups' = Some({BackupGroup})
          /\ stage' = r.stage
          /\ candidates' = r.candidates
          /\ entries' = r.entries
          /\ message' = r.message
          /\ pc' = IF r.raised THEN "raised" ELSE "returned"
    /\ UNCHANGED <<db_entries, term, entry, key, found, args, environ,
                   config, opened, choice, selected, prompts, answer, argv>>

Next == FuzzySearch \/ SearchForEntry

\* Every store of up to MaxEntries entries over all the titles.
Spec == Init /\ [][Next]_vars

\* Every store of up to MaxCloseEntries entries over the close titles.
SpecClose == InitClose /\ [][Next]_vars

-----------------------------------------------------------------------------
(* The claims about the resolver. *)

\* A search has run.
Called == pc \in {"fuzzy_returned", "returned", "raised"}

Refs == 1..Len(db_entries)
TitleOf(i) == get_title(db_entries[i]).val
NameOf(i) == Lower(TitleOf(i))
Excluded(i) == ignore_groups # None /\ db_entries[i].Name \in ignore_groups.val

\* The entries a stage matches, by the stage's definition.
StageMatches(s) ==
    CASE s = 1 -> {i \in Refs : TitleOf(i) = term}
      [] s = 2 -> {i \in Refs : NameOf(i) = Lower(term)}
      [] s = 3 -> {i \in Refs : Contains(Lower(term), NameOf(i))}
      [] s = 4 -> Range(CloseMatches(db_entries, term))

\* The entries of a stage that are in no ignored group.
Kept(s) == {i \in StageMatches(s) : ~Excluded(i)}

\* C1: each stage's matches are filtered before the stage is tested for
\* emptiness: the search returns the filtered matches of the first stage that
\* has a match outside the ignored groups, so a stage whose matches are all
\* ignored is passed over and a later stage's entry is still returned.
C1_FilteredBeforeEmptinessTest ==
    Called =>
        \A s \in 1..4 :
            ((\A r \in 1..(s - 1) : Kept(r) = {}) /\ Kept(s) # {})
                => Range(entries) = Kept(s)

\* C2: the stages are tried in the order exact, case-insensitive, substring,
\* approximate, and whatever is returned is the filtered result of the first
\* stage whose filtered result is not empty; when an entry outside the
\* ignored groups has the term as its title, every returned entry has.
C2_StagePrecedence ==
    Called =>
        /\ entries # <<>> =>
               \E s \in 1..4 :
                   /\ Range(entries) = Kept(s)
                   /\ \A r \in 1..(s - 1) : Kept(r) = {}
        /\ (\E i \in Refs : TitleOf(i) = term /\ ~Excluded(i)) =>
               /\ entries # <<>>
               /\ \A k \in 1..Len(entries) : TitleOf(entries[k]) = term

\* An exact match is returned alone although a case-insensitive match and a
\* substring match outside "Backup" are in the store.
C2_Witness ==
    /\ pc = "returned"
    /\ \E i, j, k \in Refs :
        /\ TitleOf(i) = term /\ i \in Range(entries)
        /\ TitleOf(j) # term /\ NameOf(j) = Lower(term) /\ ~Excluded(j)
        /\ NameOf(k) # Lower(term) /\ Contains(Lower(term), NameOf(k)) /\ ~Excluded(k)
        /\ j \notin Range(entries) /\ k \notin Range(entries)

\* The position of x in the sequence s.
PosIn(s, x) == CHOOSE p \in 1..Len(s) : s[p] = x

\* C3: the filter returns exactly the candidates whose group is not ignored,
\* in their order; with an empty list of groups as with none it returns the
\* whole input; no entry _search_for_entry returns is in the group "Backup".
C3_FilterContract ==
    Called =>
        /\ Range(entries) = {i \in Range(candidates) : ~Excluded(i)}
        /\ \A p, q \in 1..Len(entries) :
               p < q => PosIn(candidates, entries[p]) < PosIn(candidates, entries[q])
        /\ ignore_groups \in {None, Some({})} => entries = candidates
        /\ pc = "returned" =>
               \A k \in 1..Len(entries) : db_entries[entries[k]].Name # BackupGroup

\* _search_for_entry returned two entries after the filter dropped a
\* candidate of the group "Backup".
C3_Witness ==
    /\ pc = "returned"
    /\ Len(entries) >= 2
    /\ \E i \in Range(candidates) : db_entries[i].Name = BackupGroup

\* C4: _search_for_entry either returns at least one entry or raises
\* EntryNotFoundError with the unmodified term in its message; when no stage
\* has a match outside "Backup" it raises.
C4_NonEmptyOrNotFound ==
    /\ pc = "returned" => Len(entries) >= 1 /\ message = <<>>
    /\ pc = "raised" =>
           /\ Len(message) = Len(NotFoundPrefix) + Len(term)
           /\ SubSeq(message, 1, Len(NotFoundPrefix)) = NotFoundPrefix
           /\ SubSeq(message, Len(NotFoundPrefix) + 1, Len(message)) = term
    /\ (pc \in {"returned", "raised"} /\ \A s \in 1..4 : Kept(s) = {}) => pc = "raised"

\* EntryNotFoundError for a term with a capital, on a store whose entries
\* match at no stage outside "Backup".
C4_Witness ==
    /\ pc = "raised"
    /\ term # Lower(term)
    /\ Len(db_entries) >= 2
    /\ \A s \in 1..4 : Kept(s) = {}

\* The lowercased titles at or above the cutoff, and those of the candidates.
QualifyingNames ==
    {n \in {NameOf(i) : i \in Refs} : AtLeastCutoff(Ratio(n, Lower(term)))}
CandidateNames == {NameOf(i) : i \in Range(candidates)}

\* The approximate stage was reached: no earlier stage had a match.
ApproximateReached == Called /\ stage \in {0, 4}

\* n is closer to the term than m: a higher ratio, or the same ratio and the
\* greater string.
Closer(n, m) ==
    LET rn == Ratio(n, Lower(term))
        rm == Ratio(m, Lower(term))
    IN rm[1] * rn[2] < rn[1] * rm[2]
       \/ (rm[1] * rn[2] = rn[1] * rm[2] /\ StrLess(m, n))

FirstRef(n) == CHOOSE i \in Refs : NameOf(i) = n /\ \A j \in 1..(i - 1) : NameOf(j) # n

C7_NoDuplicatesStoreOrder ==
    Called =>
        /\ \A p, q \in 1..Len(entries) : p # q => entries[p] # entries[q]
        /\ stage \in 1..3 =>
               /\ Range(entries) = Kept(stage)
               /\ \A p, q \in 1..Len(entries) : p < q => entries[p] < entries[q]
        /\ \A i, j \in Refs :
               (i < j /\ TitleOf(i) = term /\ TitleOf(j) = term
                      /\ ~Excluded(i) /\ ~Excluded(j)) =>
                   \E p, q \in 1..Len(entries) :
                       p < q /\ entries[p] = i /\ entries[q] = j

\* Two entries outside "Backup" with the term as their title are returned,
\* an entry of "Backup" with the same title between them is not.
C7_Witness ==
    /\ pc = "returned" /\ stage = 1
    /\ entries = <<1, 3>>
    /\ TitleOf(2) = term

-----------------------------------------------------------------------------
(* Field lookup as a state machine: one lookup on one entry. *)

\* Keys and values of the String fields of an entry, and queried keys.
StoredKeys ==
    { PasswordKey,
      <<112, 97, 115, 115, 119, 111, 114, 100>>,     \* 'password'
      TitleKey,
      <<85, 82, 76>> }                               \* 'URL'

StoredValues == { <<115, 51>>, <<120>> }             \* 's3', 'x'

QueriedKeys ==
    { TitleKey,
      <<116, 105, 116, 108, 101>>,                   \* 'title'
      <<80, 65, 83, 83, 87, 79, 82, 68>>,            \* 'PASSWORD'
      <<117, 114, 108>>,                             \* 'url'
      <<85, 115, 101, 114, 78, 97, 109, 101>> }      \* 'UserName'

FieldPool == {[Key |-> k, Value |-> v] : k \in StoredKeys, v \in StoredValues}

InitLookup ==
    /\ pc = "lookup_ready"
    /\ \E strings \in SeqsUpTo(FieldPool, MaxFields) :
           entry = [String |-> strings, Name |-> "Internet"]
    /\ key = None /\ found = None
    /\ db_entries = <<>> /\ term = <<>>
    /\ SearchIdle /\ ConfigIdle /\ PromptIdle

\* A call of _find_string(entry, k).
FindString ==
    /\ pc = "lookup_ready"
    /\ \E k \in QueriedKeys :
           /\ key' = Some(k)
           /\ found' = find_string(entry, k)
    /\ pc' = "found_string"
    /\ UNCHANGED <<db_entries, term, ignore_groups, stage, candidates, entries,
                   message, entry, args, environ, config, opened, choice,
                   selected, prompts, answer, argv>>

\* A call of _find_password(entry): the lookup of the key 'Password'.
FindPassword ==
    /\ pc = "lookup_ready"
    /\ key' = Some(PasswordKey)
    /\ found' = find_password(entry)
    /\ pc' = "found_password"
    /\ UNCHANGED <<db_entries, term, ignore_groups, stage, candidates, entries,
                   message, entry, args, environ, config, opened, choice,
                   selected, prompts, answer, argv>>

NextLookup == FindString \/ FindPassword

SpecLookup == InitLookup /\ [][NextLookup]_vars

\* The value of the first field of the entry whose key equals k but for
\* case, None when there is no such field.
FirstIgnoringCase(e, k) ==
    LET hits == {i \in 1..Len(e.String) : Lower(e.String[i].Key) = Lower(k)}
    IN IF hits = {} THEN None
       ELSE Some(e.String[CHOOSE i \in hits : \A j \in hits : i <= j].Value)

\* C8: a field lookup compares the queried key with each stored key without
\* regard to case and returns the value of the first field that matches,
\* None when none does; so for the title, so for the password.
C8_LookupIgnoresCase ==
    pc \in {"found_string", "found_password"} =>
        found = FirstIgnoringCase(entry, key.val)

\* The part of C8 that _find_string alone satisfies.
FindStringIgnoresCase ==
    pc = "found_string" => found = FirstIgnoringCase(entry, key.val)

-----------------------------------------------------------------------------
(* The configuration layers as a state machine: main up to keepass.open. *)

\* os.path.expanduser: a leading '~' that is the whole path or is followed
\* by '/' is replaced by the home directory.
HomeDir == <<47, 104>>                               \* '/h'

expanduser(path) ==
    IF Len(path) >= 1 /\ path[1] = 126 /\ (Len(path) = 1 \/ path[2] = 47)
    THEN HomeDir \o SubSeq(path, 2, Len(path))
    ELSE path

\* What each layer may hold for a file: nothing or one path of its own.
FlagPaths == {None, Some(<<102>>)}                   \* 'f'
EnvPaths == {None, Some(<<126, 47, 101>>)}           \* '~/e'
ConfigPaths == {None, Some(<<126, 47, 99>>)}         \* '~/c'

\* ~/.kpconfig: missing, not a mapping, or a mapping that may hold db_file
\* and key_file.
ConfigFiles ==
    { [isfile |-> FALSE, isdict |-> FALSE, db_file |-> None, key_file |-> None],
      [isfile |-> TRUE, isdict |-> FALSE, db_file |-> None, key_file |-> None] }
    \cup [isfile : {TRUE}, isdict : {TRUE}, db_file : ConfigPaths, key_file : ConfigPaths]

InitConfig ==
    /\ pc = "main"
    /\ argv \in [d : FlagPaths, k : FlagPaths]
    /\ environ \in [KP_DB_FILE : EnvPaths, KP_KEY_FILE : EnvPaths]
    /\ config \in ConfigFiles
    /\ args = None /\ opened = None
    /\ db_entries = <<>> /\ term = <<>>
    /\ SearchIdle /\ LookupIdle /\ PromptIdle

\* merge_config_file_values(args): the namespace after the call.
merge_config_file_values(a, cfg) ==
    IF cfg.isfile /\ cfg.isdict
    THEN [db_file |-> IF a.db_file = None THEN cfg.db_file ELSE a.db_file,
          key_file |-> IF a.key_file = None THEN cfg.key_file ELSE a.key_file]
    ELSE a

\* create_db(args): what is handed to keepass.open; exits when there is no
\* db_file.
create_db(a, env) ==
    LET db_file == IF a.db_file # None THEN Some(expanduser(a.db_file.val))
                   ELSE IF env.KP_DB_FILE # None
                        THEN Some(expanduser(env.KP_DB_FILE.val))
                        ELSE None
        key_file == IF a.key_file # None THEN Some(expanduser(a.key_file.val))
                    ELSE IF env.KP_KEY_FILE # None
                         THEN Some(expanduser(env.KP_KEY_FILE.val))
                         ELSE None
    IN [exit |-> db_file = None, db_file |-> db_file,
        key_file |-> IF db_file = None THEN None ELSE key_file]

\* main: args = _parse_args(parser, args)
ParseArgs ==
    /\ pc = "main"
    /\ args' = [db_file |-> argv.d, key_file |-> argv.k]
    /\ pc' = "parsed"
    /\ UNCHANGED <<db_entries, term, ignore_groups, stage, candidates, entries,
                   message, entry, key, found, environ, config, opened, choice,
                   selected, prompts, answer, argv>>

\* main: merge_config_file_values(args)
MergeConfigFileValues ==
    /\ pc = "parsed"
    /\ args' = merge_config_file_values(args, config)
    /\ pc' = "merged"
    /\ UNCHANGED <<db_entries, term, ignore_groups, stage, candidates, entries,
                   message, entry, key, found, environ, config, opened, choice,
                   selected, prompts, answer, argv>>

\* main: args.run(args), which enters create_db(args).
CreateDb ==
    /\ pc = "merged"
    /\ LET r == create_db(args, environ)
       IN /\ opened' = [db_file |-> r.db_file, key_file |-> r.key_file]
          /\ pc' = IF r.exit THEN "exit" ELSE "opened"
    /\ UNCHANGED <<db_entries, term, ignore_groups, stage, candidates, entries,
                   message, entry, key, found, args, environ, config, choice,
                   selected, prompts, answer, argv>>

NextConfig == ParseArgs \/ MergeConfigFileValues \/ CreateDb

SpecConfig == InitConfig /\ [][NextConfig]_vars

\* What the config file supplies for a file.
ConfigSupplies(f) == IF config.isfile /\ config.isdict THEN f ELSE None

\* C9: with no flag given and a value both in the environment variable and
\* in the config file, create_db uses the environment variable's value, for
\* the database file and for the key file.
C9_EnvironmentBeforeConfigFile ==
    pc = "opened" =>
        /\ (argv.d = None /\ environ.KP_DB_FILE # None
                /\ ConfigSupplies(config.db_file) # None)
               => opened.db_file = Some(expanduser(environ.KP_DB_FILE.val))
        /\ (argv.k = None /\ environ.KP_KEY_FILE # None
                /\ ConfigSupplies(config.key_file) # None)
               => opened.key_file = Some(expanduser(environ.KP_KEY_FILE.val))

\* What the code does instead: a value of the config file comes before the
\* environment variable's, a flag before both.
ConfigFileBeforeEnvironment ==
    pc \in {"opened", "exit"} =>
        LET layered(flag, cfg, env) ==
                IF flag # None THEN Some(expanduser(flag.val))
                ELSE IF ConfigSupplies(cfg) # None THEN Some(expanduser(cfg.val))
                ELSE IF env # None THEN Some(expanduser(env.val))
                ELSE None
        IN /\ opened.db_file = layered(argv.d, config.db_file, environ.KP_DB_FILE)
           /\ pc = "opened" =>
                  opened.key_file = layered(argv.k, config.key_file, environ.KP_KEY_FILE)
           /\ pc = "exit" <=> opened.db_file = None

-----------------------------------------------------------------------------
(* do_get as a state machine: the search, the prompt, the selection. *)

\* int(s) for the text of an answer: an optional sign and one or more
\* digits give Some(number); anything else raises ValueError, None here.
IsDigit(c) == c >= 48 /\ c <= 57

RECURSIVE DigitsValue(_)
DigitsValue(ds) ==
    IF ds = <<>> THEN 0
    ELSE 10 * DigitsValue(SubSeq(ds, 1, Len(ds) - 1)) + (ds[Len(ds)] - 48)

ParseInt(s) ==
    LET signed == Len(s) >= 1 /\ s[1] \in {43, 45}
        digits == IF signed THEN SubSeq(s, 2, Len(s)) ELSE s
    IN IF digits = <<>> \/ \E i \in 1..Len(digits) : ~IsDigit(digits[i])
       THEN None
       ELSE Some(IF signed /\ s[1] = 45 THEN 0 - DigitsValue(digits)
                 ELSE DigitsValue(digits))

\* A mutant: the upper end of the range is not tested.
choice_after_answer_no_upper(text, n) ==
    LET parsed == ParseInt(text)
    IN IF parsed = None THEN None
       ELSE IF parsed.val < 1 THEN None
       ELSE parsed

\* The body of the try of the prompt loop, n = len(entries):
\* choice = int(raw_input(...)); out of 1..n, or not a number, choice = None.
choice_after_answer(text, n) ==
    LET parsed == ParseInt(text)
    IN IF parsed = None THEN None
       ELSE IF parsed.val < 1 \/ parsed.val > n THEN None
       ELSE parsed

\* not choice
NotChoice(c) == c = None \/ c.val = 0

\* What the user may type at the prompt.
Answers ==
    { <<>>,                 \* ''
      <<120>>,              \* 'x'
      <<45, 49>>,           \* '-1'
      <<48>>,               \* '0'
      <<49>>,               \* '1'
      <<50>>,               \* '2'
      <<51>>,               \* '3'
      <<52>>,               \* '4'
      <<49, 48>> }          \* '10'

\* Entries that all match the term 'aba', in and out of "Backup".
GetEntryPool ==
    { MkEntry(<<97, 98, 97>>, "Internet"),
      MkEntry(<<97, 98, 97>>, BackupGroup),
      MkEntry(<<65, 98, 97>>, "Internet") }

InitGet ==
    /\ pc = "do_get"
    /\ db_entries \in SeqsUpTo(GetEntryPool, MaxEntries)
    /\ term \in Terms
    /\ choice = None /\ selected = 0 /\ prompts = 0 /\ answer = None
    /\ SearchIdle /\ LookupIdle /\ ConfigIdle

\* do_get up to the prompt: entries = _search_for_entry(db, args.entry_id),
\* return on EntryNotFoundError; selected = 0; choice = None when more than
\* one entry matched.
DoGetSearch ==
    /\ pc = "do_get"
    /\ LET r == search_for_entry(db_entries, term)
       IN /\ ignore_groups' = Some({BackupGroup})
          /\ stage' = r.stage
          /\ candidates' = r.candidates
          /\ entries' = r.entries
          /\ message' = r.message
          /\ pc' = IF r.raised THEN "not_found"
                   ELSE IF Len(r.entries) > 1 THEN "prompt"
                   ELSE "select"
    /\ selected' = 0
    /\ choice' = None
    /\ UNCHANGED <<db_entries, term, entry, key, found, args, environ, config,
                   opened, prompts, answer, argv>>

\* One turn of the prompt loop: the user types an answer.  The loop ends
\* when choice is set, and then selected = choice - 1.
Answer ==
    /\ pc = "prompt"
    /\ prompts < MaxPrompts
    /\ \E text \in Answers :
        LET c == choice_after_answer(text, Len(entries))
        IN /\ answer' = Some(text)
           /\ choice' = c
           /\ IF NotChoice(c)
              THEN pc' = "prompt" /\ selected' = selected
              ELSE pc' = "select" /\ selected' = c.val - 1
    /\ prompts' = prompts + 1
    /\ UNCHANGED <<db_entries, term, ignore_groups, stage, candidates, entries,
                   message, entry, key, found, args, environ, config, opened, argv>>

\* KeyboardInterrupt at the prompt: quit().
Interrupt ==
    /\ pc = "prompt"
    /\ pc' = "quit"
    /\ UNCHANGED <<db_entries, term, ignore_groups, stage, candidates, entries,
                   message, entry, key, found, args, environ, config, opened,
                   choice, selected, prompts, answer, argv>>

\* entry = entries[selected], then the password of that entry is looked up
\* for the clipboard.  IndexError when selected is beyond the list; a
\* negative index counts from the end.
Select ==
    /\ pc = "select"
    /\ LET n == Len(entries)
       IN IF selected >= n \/ selected < 0 - n
          THEN pc' = "index_error" /\ UNCHANGED <<entry, found>>
          ELSE LET ref == IF selected >= 0 THEN entries[selected + 1]
                          ELSE entries[n + selected + 1]
               IN /\ entry' = Some(ref)
                  /\ found' = find_password(db_entries[ref])
                  /\ pc' = "selected"
    /\ UNCHANGED <<db_entries, term, ignore_groups, stage, candidates, entries,
                   message, key, args, environ, config, opened, choice,
                   selected, prompts, answer, argv>>

NextGet == DoGetSearch \/ Answer \/ Interrupt \/ Select

SpecGet == InitGet /\ [][NextGet]_vars

\* The text is a whole number in 1..n, written with digits only.
ValidAnswer(text, n) ==
    \E c \in 1..n :
        \/ text = <<48 + c>>
        \/ text = <<43, 48 + c>>

\* C10: the prompt loop is left only after an answer that is an integer
\* choice with 1 <= choice <= len(entries); the entry consumed is then
\* entries[choice - 1], the row numbered choice; when one entry matched there
\* is no prompt and entries[0] is consumed; the index is always within the
\* list.
C10_SelectionInRange ==
    /\ pc # "index_error"
    /\ pc = "prompt" => Len(entries) > 1 /\ choice = None
    /\ pc \in {"select", "selected"} =>
           /\ selected \in 0..(Len(entries) - 1)
           /\ Len(entries) = 1 => prompts = 0 /\ selected = 0
           /\ Len(entries) > 1 =>
                  /\ prompts >= 1
                  /\ ValidAnswer(answer.val, Len(entries))
                  /\ choice # None
                  /\ choice.val \in 1..Len(entries)
                  /\ selected = choice.val - 1
    /\ pc = "selected" => entry = Some(entries[selected + 1])

\* The third answer is the first valid one, and the second of three entries
\* is consumed.
C10_Witness ==
    /\ pc = "selected"
    /\ prompts = 3
    /\ Len(entries) = 3
    /\ choice = Some(2)
    /\ entry = Some(entries[2])

=============================================================================
